---- MODULE Spec2Model ----
(***************************************************************************)
(* SoroTask: the task-automation contract of contract/src/lib.rs.          *)
(*                                                                         *)
(* Every public function of SoroTaskContract is one operator that maps the *)
(* contract's storage and the call's inputs to the call's outcome (result, *)
(* written storage, external calls made, events published), and one action *)
(* that commits that outcome the way the host does: a call that panics is  *)
(* rolled back whole, a call that returns keeps its writes.                *)
(*                                                                         *)
(* Option<T> is a sequence of length 0 (None) or 1 (Some).  u64 values are *)
(* kept at a scaled width: they range over 0..U64Max and u64 addition is   *)
(* taken modulo U64Max + 1, as the machine's is modulo 2^64; i128 values   *)
(* likewise range over I128Min..I128Max.                                   *)
(*                                                                         *)
(* Spec follows the registry and the execution gate over time; SpecGas     *)
(* follows the gas ledger, with every call that writes storage or moves    *)
(* tokens, within one ledger.                                              *)
(***************************************************************************)
EXTENDS Integers, Sequences, FiniteSets, TLC

\* ------------------------------------------------------------------ bounds

\* Largest u64 value at the scaled width (for 2^64 - 1).
U64Max == 3

\* Largest number of task registrations explored.
MaxTasks == 2

\* Tokens each principal holds at the start, in the gas token.
InitialFunds == 1

\* Largest i128 value at the scaled width (for 2^127 - 1).
I128Max == 2

\* ---------------------------------------------------------------- inputs

\* Addresses that sign calls: creators, keepers, depositors.
Principals == {"alice", "bob"}

\* The contract's own address (env.current_contract_address()).
Engine == "engine"

Accounts == Principals \union {Engine}

\* Addresses given to init.
Tokens == {"tokenA", "tokenB"}

U64 == 0..U64Max

\* Smallest i128 value at the scaled width (for -2^127).
I128Min == -(I128Max + 1)

\* The task ids passed to calls: every id a register can return, and 0 and
\* one more, which none returns.
TaskIds == 0..(MaxTasks + 1)

\* The configuration the tests build on (fn base_config): no resolver, an
\* empty whitelist, last_run 0; every registered config is the base with
\* some fields replaced, as in `TaskConfig { resolver: .., ..base_config() }`.
base_config ==
    [creator |-> "alice", target |-> "target", function |-> "ping",
     args |-> <<>>, resolver |-> <<>>, interval |-> 1, last_run |-> 0,
     gas_balance |-> 0, whitelist |-> <<>>]

\* The configs passed to register.
Configs ==
    { [base_config EXCEPT !.interval = i, !.last_run = l] :
          i \in {0, 1, 2, U64Max}, l \in {0, U64Max} }
    \union
    { [base_config EXCEPT !.resolver = r, !.whitelist = w, !.interval = i] :
          r \in {<<>>, <<"resolver">>}, w \in {<<>>, <<"alice">>}, i \in {1, 2} }
    \union
    { [base_config EXCEPT !.creator = "bob", !.target = "target2",
                          !.function = "add", !.args = <<5, 3>>,
                          !.gas_balance = g] : g \in {0, 1} }

\* The configs passed to the register call made when the Counter is c: any
\* config for the first task, the base config (valid or with interval 0) for
\* the tasks registered beside it.
ConfigsAt(c) ==
    IF c = 0 THEN Configs
    ELSE { [base_config EXCEPT !.interval = i] : i \in {0, 1} }

\* The configs passed to register where gas is followed: either creator,
\* any opening gas_balance an i128 field can carry (none, some, the largest).
GasConfigs ==
    { [base_config EXCEPT !.creator = c, !.gas_balance = g] :
          c \in Principals, g \in {0, 1, I128Max} }

\* The configs passed to the register call made when the Counter is c,
\* where gas is followed: any of GasConfigs for the first task, an unfunded
\* task of another creator beside it.
GasConfigsAt(c) ==
    IF c = 0 THEN GasConfigs
    ELSE { [base_config EXCEPT !.creator = "bob"] }

\* The task ids passed to deposit_gas and withdraw_gas: every id a register
\* can return; those above the Counter are not registered yet.
GasTaskIds == 1..MaxTasks

\* Amounts passed to deposit_gas and withdraw_gas.
Amounts == {-1, 1, 2}

\* What a call through try_invoke_contract::<bool, Error> can yield:
\* Ok(Ok(true)), Ok(Ok(false)), Ok(Err(_)) (wrong return shape), Err(_)
\* (the resolver trapped).
ResolverOutcomes == {"true", "false", "badtype", "fault"}

\* What a call through invoke_contract can do: return, or trap.
TargetOutcomes == {"ok", "fault"}

\* ------------------------------------------------------------------ state

VARIABLES
    counter,   \* DataKey::Counter in persistent storage (0 while unset)
    tasks,     \* DataKey::Task(id) in persistent storage: id -> TaskConfig
    token,     \* DataKey::Token in instance storage: <<>> or <<address>>
    balance,   \* the gas token's ledger: account -> amount held
    now,       \* env.ledger().timestamp()
    overflow_checks, \* whether the build traps on integer overflow
    returned,  \* the ids returned by the successful register calls, in order
    last       \* the latest call as its caller saw it

vars == <<counter, tasks, token, balance, now, overflow_checks, returned, last>>

\* The contract's storage together with the token ledger its calls move.
Store == [counter |-> counter, tasks |-> tasks, token |-> token, balance |-> balance]

\* ------------------------------------------------------------- the calls

\* A call's outcome.  op names the function, who the address whose
\* authorization it asks for, auth the host's answer to that require_auth
\* (TRUE where none is asked), id its task_id, arg its other argument (the
\* config, the amount, the token address); result is "ok" or names the
\* failure (a variant of enum Error, lines 10-15, or the panic); store is
\* what the call has written when it ends; calls are the cross-contract
\* calls it made, in order; events what it published; ret_id / ret_task its
\* return value (ret_task holds an Option<TaskConfig> or Address).
Outcome(op, who, auth, id, arg, result, store, calls, events, ret_id, ret_task) ==
    [op |-> op, who |-> who, auth |-> auth, id |-> id, arg |-> arg, result |-> result,
     store |-> store, calls |-> calls, events |-> events, ret_id |-> ret_id,
     ret_task |-> ret_task]

\* A call that panicked: nothing published, nothing returned; st is what it
\* had written when it panicked.
Failed(op, who, auth, id, arg, result, st) ==
    Outcome(op, who, auth, id, arg, result, st, <<>>, <<>>, 0, <<>>)

\* i128 arithmetic: the value the machine holds after a +/- that left the
\* range, and whether it left the range.
WrapI128(x) == ((x - I128Min) % (2 * I128Max + 2)) + I128Min

OverflowsI128(x) == x < I128Min \/ x > I128Max

\* Mutant of ValidInterval: the zero check dropped.
ValidInterval_Any(interval) == interval >= 0

\* Mutant of NextCounter: the increment lost.
NextCounter_Stale(c) == c

\* Mutant of NextCounter: every task stored under the first id.
NextCounter_First(c) == 1

\* register: lines 49-79.  auth is the host's answer to
\* config.creator.require_auth().
ValidInterval(interval) == interval # 0

NextCounter(c) == c + 1

\* Mutant of TaskRegistered: the id read before the Counter was bumped.
TaskRegistered_Stale(id, creator) == <<"TaskRegistered", id - 1, creator>>

\* The event of lines 73-76: topics (TaskRegistered, counter), data creator.
TaskRegistered(id, creator) == <<"TaskRegistered", id, creator>>

register(st, config, auth) ==
    IF ~auth THEN Failed("register", config.creator, auth, 0, <<config>>, "AuthDenied", st)
    ELSE IF ~ValidInterval(config.interval)
    THEN Failed("register", config.creator, auth, 0, <<config>>, "InvalidInterval", st)
    ELSE LET c == NextCounter(st.counter)
             written == [st EXCEPT !.counter = c,
                                   !.tasks = (c :> config) @@ st.tasks]
         IN  Outcome("register", config.creator, auth, 0, <<config>>, "ok", written, <<>>,
                     << TaskRegistered(c, config.creator) >>, c, <<>>)

\* Mutant of get_task: a default record where none is stored.
get_task_OrDefault(st, task_id) ==
    Outcome("get_task", "", TRUE, task_id, <<>>, "ok", st, <<>>, <<>>, 0,
            IF task_id \in DOMAIN st.tasks THEN <<st.tasks[task_id]>>
            ELSE <<base_config>>)

\* get_task: lines 82-84.
get_task(st, task_id) ==
    Outcome("get_task", "", TRUE, task_id, <<>>, "ok", st, <<>>, <<>>, 0,
            IF task_id \in DOMAIN st.tasks THEN <<st.tasks[task_id]>> ELSE <<>>)

\* Vec::contains on the whitelist, and the gate of lines 118-120.
Contains(vec, x) == \E i \in 1..Len(vec) : vec[i] = x

\* Mutant of KeeperAllowed: the is_empty() case dropped.
KeeperAllowed_MembersOnly(whitelist, keeper) == Contains(whitelist, keeper)

KeeperAllowed(whitelist, keeper) == Len(whitelist) = 0 \/ Contains(whitelist, keeper)

\* u64 addition: the sum the machine holds, and whether it left the range.
AddU64(a, b) == (a + b) % (U64Max + 1)

OverflowsU64(a, b) == a + b > U64Max

\* The interval gate of lines 122-124, on the sum as the machine holds it.
TooEarly(t, config) == t < AddU64(config.last_run, config.interval)

\* Mutant of ResolverApproves: only a clean false declines.
ResolverApproves_UnlessFalse(ro) == ro # "false"

\* matches!(.., Ok(Ok(true))) of lines 140-147.
ResolverApproves(ro) == ro = "true"

\* Mutant of TargetReturned: the target's trap caught, as the resolver's is.
TargetReturned_Isolated(to) == TRUE

\* invoke_contract of line 157 returns only if the target did not trap.
TargetReturned(to) == to = "ok"

\* Mutant of RecordRun: the run recorded at its due time, not at now.
RecordRun_AtDueTime(config, t) ==
    [config EXCEPT !.last_run = AddU64(config.last_run, config.interval)]

\* Mutant of RecordRun: a run charged to the task's gas_balance.
RecordRun_ChargesGas(config, t) ==
    [config EXCEPT !.last_run = t, !.gas_balance = WrapI128(@ - 1)]

\* Mutant of RecordRun: the record rebuilt from defaults.
RecordRun_Rebuilt(config, t) == [base_config EXCEPT !.last_run = t]

\* Lines 162-163: the record execute stores after the target returned.
RecordRun(config, t) == [config EXCEPT !.last_run = t]

ResolverCall(config, ro) ==
    [via |-> "try_invoke_contract", to |-> config.resolver[1],
     fn |-> "check_condition", args |-> <<config.args>>, out |-> ro]

TargetCall(config, to) ==
    [via |-> "invoke_contract", to |-> config.target,
     fn |-> config.function, args |-> config.args, out |-> to]

\* execute: lines 109-165.  t is the ledger timestamp, checked whether the
\* build traps on overflow, auth the host's answer to keeper.require_auth(),
\* ro and to what the resolver and the target do if they are called.
execute(st, t, checked, keeper, task_id, auth, ro, to) ==
    IF ~auth THEN Failed("execute", keeper, auth, task_id, <<>>, "AuthDenied", st)
    ELSE IF task_id \notin DOMAIN st.tasks
    THEN Failed("execute", keeper, auth, task_id, <<>>, "TaskNotFound", st)
    ELSE
    LET config == st.tasks[task_id]
        rcalls == IF config.resolver # <<>>
                  THEN <<ResolverCall(config, ro)>> ELSE <<>>
        should_execute == IF config.resolver # <<>>
                          THEN ResolverApproves(ro) ELSE TRUE
        written == [st EXCEPT !.tasks[task_id] = RecordRun(config, t)]
    IN
    IF ~KeeperAllowed(config.whitelist, keeper)
    THEN Failed("execute", keeper, auth, task_id, <<>>, "Unauthorized", st)
    ELSE IF checked /\ OverflowsU64(config.last_run, config.interval)
    THEN Failed("execute", keeper, auth, task_id, <<>>, "Overflow", st)
    ELSE IF TooEarly(t, config)
    THEN Outcome("execute", keeper, auth, task_id, <<>>, "ok", st, <<>>, <<>>, 0, <<>>)
    ELSE IF ~should_execute
    THEN Outcome("execute", keeper, auth, task_id, <<>>, "ok", st, rcalls, <<>>, 0, <<>>)
    ELSE IF ~TargetReturned(to)
    THEN Outcome("execute", keeper, auth, task_id, <<>>, "TargetFault", st,
                 Append(rcalls, TargetCall(config, to)), <<>>, 0, <<>>)
    ELSE Outcome("execute", keeper, auth, task_id, <<>>, "ok", written,
                 Append(rcalls, TargetCall(config, to)), <<>>, 0, <<>>)

\* Mutant of HasToken: the token never found set.
HasToken_Never(st) == FALSE

\* Mutant of HasToken: the token always found set.
HasToken_Always(st) == TRUE

\* env.storage().instance().has(&DataKey::Token) of line 169, and whether
\* the .get(&DataKey::Token) of lines 189, 225 and 247 finds a value.
HasToken(st) == st.token # <<>>

\* init: lines 168-173.
init(st, token_address) ==
    IF HasToken(st)
    THEN Failed("init", "", TRUE, 0, <<token_address>>, "AlreadyInitialized", st)
    ELSE Outcome("init", "", TRUE, 0, <<token_address>>, "ok", [st EXCEPT !.token = <<token_address>>],
                 <<>>, <<>>, 0, <<>>)

\* get_token: lines 244-249.
get_token(st) ==
    IF ~HasToken(st)
    THEN Failed("get_token", "", TRUE, 0, <<>>, "NotInitialized", st)
    ELSE Outcome("get_token", "", TRUE, 0, <<>>, "ok", st, <<>>, <<>>, 0, st.token)

\* token::Client::transfer: the token refuses a negative amount, an amount
\* the sender does not hold, and whatever else it refuses (frozen).
TransferOk(bal, from, amount, frozen) ==
    ~frozen /\ amount >= 0 /\ bal[from] >= amount

Transfer(bal, from, to, amount) ==
    IF from = to THEN bal
    ELSE [bal EXCEPT ![from] = @ - amount, ![to] = @ + amount]

\* Mutant of Credit: the deposit counted twice.
Credit_Twice(gas_balance, amount) == WrapI128(gas_balance + amount + amount)

\* Mutant of Debit: the withdrawal not taken off the balance.
Debit_None(gas_balance, amount) == gas_balance

\* Mutant of Covered: the balance check dropped.
Covered_Always(gas_balance, amount) == TRUE

\* `config.gas_balance += amount` of line 197.
Credit(gas_balance, amount) == WrapI128(gas_balance + amount)

\* `config.gas_balance -= amount` of line 233.
Debit(gas_balance, amount) == WrapI128(gas_balance - amount)

\* The balance check of lines 218-220 (its negation panics).
Covered(gas_balance, amount) == ~(gas_balance < amount)

\* deposit_gas: lines 176-203.  checked is whether the build traps on
\* overflow, frozen whether the token refuses the transfer.
deposit_gas(st, task_id, from, amount, auth, frozen, checked) ==
    IF ~auth THEN Failed("deposit_gas", from, auth, task_id, <<amount>>, "AuthDenied", st)
    ELSE IF task_id \notin DOMAIN st.tasks
    THEN Failed("deposit_gas", from, auth, task_id, <<amount>>, "TaskNotFound", st)
    ELSE IF ~HasToken(st)
    THEN Failed("deposit_gas", from, auth, task_id, <<amount>>, "NotInitialized", st)
    ELSE IF ~TransferOk(st.balance, from, amount, frozen)
    THEN Failed("deposit_gas", from, auth, task_id, <<amount>>, "TransferFailed", st)
    ELSE IF checked /\ OverflowsI128(st.tasks[task_id].gas_balance + amount)
    THEN Failed("deposit_gas", from, auth, task_id, <<amount>>, "Overflow",
                [st EXCEPT !.balance = Transfer(st.balance, from, Engine, amount)])
    ELSE Outcome("deposit_gas", from, auth, task_id, <<amount>>, "ok",
                 [st EXCEPT !.balance = Transfer(st.balance, from, Engine, amount),
                            !.tasks[task_id].gas_balance = Credit(@, amount)],
                 <<>>, << <<"GasDeposited", task_id, from, amount>> >>, 0, <<>>)

\* withdraw_gas: lines 207-241.
withdraw_gas(st, task_id, amount, auth, frozen, checked) ==
    IF task_id \notin DOMAIN st.tasks
    THEN Failed("withdraw_gas", "", TRUE, task_id, <<amount>>, "TaskNotFound", st)
    ELSE
    LET config == st.tasks[task_id] IN
    IF ~auth THEN Failed("withdraw_gas", config.creator, auth, task_id, <<amount>>, "AuthDenied", st)
    ELSE IF ~Covered(config.gas_balance, amount)
    THEN Failed("withdraw_gas", config.creator, auth, task_id, <<amount>>, "InsufficientBalance", st)
    ELSE IF ~HasToken(st)
    THEN Failed("withdraw_gas", config.creator, auth, task_id, <<amount>>, "NotInitialized", st)
    ELSE IF ~TransferOk(st.balance, Engine, amount, frozen)
    THEN Failed("withdraw_gas", config.creator, auth, task_id, <<amount>>, "TransferFailed", st)
    ELSE IF checked /\ OverflowsI128(config.gas_balance - amount)
    THEN Failed("withdraw_gas", config.creator, auth, task_id, <<amount>>, "Overflow",
                [st EXCEPT !.balance = Transfer(st.balance, Engine, config.creator, amount)])
    ELSE Outcome("withdraw_gas", config.creator, auth, task_id, <<amount>>, "ok",
                 [st EXCEPT !.balance = Transfer(st.balance, Engine, config.creator, amount),
                            !.tasks[task_id].gas_balance = Debit(@, amount)],
                 <<>>, << <<"GasWithdrawn", task_id, config.creator, amount>> >>,
                 0, <<>>)

\* ------------------------------------------------------------ the actions

\* No call is under way: the latest one's result has been taken.
NoCall == Failed("none", "", TRUE, 0, <<>>, "ok", <<>>)

Idle == last = NoCall

\* Mutant of Committed: the writes of a call that panicked are kept.
Committed_KeepsWrites(out) == out.store

\* The host's transaction: a call that failed leaves storage and ledger as
\* they were; a call that returned keeps what it wrote (lines 103-108).
Committed(out) == IF out.result = "ok" THEN out.store ELSE Store

\* What the caller keeps of a call: everything but the scratch storage.
Seen(out) == [out EXCEPT !.store = <<>>]

Apply(out) ==
    /\ counter' = Committed(out).counter
    /\ tasks' = Committed(out).tasks
    /\ token' = Committed(out).token
    /\ balance' = Committed(out).balance
    /\ returned' = IF out.op = "register" /\ out.result = "ok"
                   THEN Append(returned, out.ret_id) ELSE returned
    /\ last' = Seen(out)
    /\ UNCHANGED <<now, overflow_checks>>

Register ==
    /\ Idle
    /\ counter < MaxTasks
    /\ \E config \in ConfigsAt(counter), auth \in BOOLEAN :
          Apply(register(Store, config, auth))

\* register, where gas is followed.
RegisterFunded ==
    /\ Idle
    /\ counter < MaxTasks
    /\ \E config \in GasConfigsAt(counter), auth \in BOOLEAN :
          Apply(register(Store, config, auth))

GetTask ==
    /\ Idle
    /\ \E task_id \in TaskIds : Apply(get_task(Store, task_id))

Execute ==
    /\ Idle
    /\ \E keeper \in Principals, task_id \in TaskIds, auth \in BOOLEAN,
       ro \in ResolverOutcomes, to \in TargetOutcomes :
          Apply(execute(Store, now, overflow_checks, keeper, task_id, auth, ro, to))

InitToken ==
    /\ Idle
    /\ \E token_address \in Tokens : Apply(init(Store, token_address))

GetToken == Idle /\ Apply(get_token(Store))

DepositGas ==
    /\ Idle
    /\ \E task_id \in GasTaskIds, from \in Principals, amount \in Amounts,
       auth \in BOOLEAN, frozen \in BOOLEAN :
          Apply(deposit_gas(Store, task_id, from, amount, auth, frozen,
                            overflow_checks))

WithdrawGas ==
    /\ Idle
    /\ \E task_id \in GasTaskIds, amount \in Amounts, auth \in BOOLEAN,
       frozen \in BOOLEAN :
          Apply(withdraw_gas(Store, task_id, amount, auth, frozen,
                             overflow_checks))

\* The ledger closes: the timestamp moves forward.
Tick ==
    /\ Idle
    /\ now < U64Max
    /\ now' = now + 1
    /\ UNCHANGED <<counter, tasks, token, balance, overflow_checks, returned, last>>

\* The caller takes the result of its call; the next call can be made.
Return ==
    /\ ~Idle
    /\ last' = NoCall
    /\ UNCHANGED <<counter, tasks, token, balance, now, overflow_checks, returned>>

Init ==
    /\ counter = 0
    /\ tasks = <<>>
    /\ token = <<>>
    /\ balance = [a \in Accounts |-> IF a = Engine THEN 0 ELSE InitialFunds]
    /\ now = 0
    /\ overflow_checks \in BOOLEAN
    /\ returned = <<>>
    /\ last = NoCall

\* The registry and the execution gate: every call but the two that move
\* gas, which touch no field the gate reads.
Next ==
    \/ Register
    \/ GetTask
    \/ Execute
    \/ InitToken
    \/ GetToken
    \/ Tick
    \/ Return

Spec == Init /\ [][Next]_vars

\* The contract deployed on a ledger whose timestamp is the base interval, at
\* which a task registered with last_run 0 is due at once.
InitGas ==
    /\ counter = 0
    /\ tasks = <<>>
    /\ token = <<>>
    /\ balance = [a \in Accounts |-> IF a = Engine THEN 0 ELSE InitialFunds]
    /\ now = base_config.interval
    /\ overflow_checks \in BOOLEAN
    /\ returned = <<>>
    /\ last = NoCall

\* The gas ledger: every call that writes storage or moves tokens, made
\* within one ledger (the timestamp stands still).
NextGas ==
    \/ RegisterFunded
    \/ GetTask
    \/ Execute
    \/ InitToken
    \/ GetToken
    \/ DepositGas
    \/ WithdrawGas
    \/ Return

SpecGas == InitGas /\ [][NextGas]_vars

\* The configs passed to register where a keeper keeps calling: a task
\* without a resolver, with one that approves whenever asked ("resolver") or
\* with one that never does ("stubborn"); any keeper or only alice; an
\* interval of 1 or 2; last_run left at 0 or set by the caller.
LiveConfigs ==
    { [base_config EXCEPT !.resolver = r, !.whitelist = w, !.interval = i,
                          !.last_run = l] :
          r \in {<<>>, <<"resolver">>, <<"stubborn">>},
          w \in {<<>>, <<"alice">>}, i \in {1, 2}, l \in {0, U64Max} }

LiveConfigsAt(c) == IF c = 0 THEN LiveConfigs ELSE {base_config}

\* What the resolver of a config answers when check_condition is called.
Answers(config) ==
    IF config.resolver = <<"stubborn">> THEN {"false", "badtype", "fault"}
    ELSE {"true"}

RegisterLive ==
    /\ Idle
    /\ counter < MaxTasks
    /\ \E config \in LiveConfigsAt(counter), auth \in BOOLEAN :
          Apply(register(Store, config, auth))

\* execute(keeper, task_id), signed by the keeper, on a task whose target
\* returns.
ExecuteBy(keeper, task_id) ==
    /\ Idle
    /\ task_id \in DOMAIN tasks
    /\ \E ro \in Answers(tasks[task_id]) :
          Apply(execute(Store, now, overflow_checks, keeper, task_id, TRUE, ro, "ok"))

ExecuteLive == \E keeper \in Principals, task_id \in GasTaskIds : ExecuteBy(keeper, task_id)

NextLive ==
    \/ RegisterLive
    \/ ExecuteLive
    \/ Tick
    \/ Return

\* The ledger keeps closing and every keeper keeps calling execute on every
\* task.  A call is two steps here (the call, then Return), so the clock and
\* the calls are enabled again and again rather than without interruption:
\* strong fairness on these steps is weak fairness on the atomic calls.
Fairness ==
    /\ SF_vars(Tick)
    /\ WF_vars(Return)
    /\ \A keeper \in Principals, task_id \in GasTaskIds :
          SF_vars(ExecuteBy(keeper, task_id))

SpecLive == Init /\ [][NextLive]_vars /\ Fairness

\* ------------------------------------------------------- reading a result

\* The contract's storage and the ledger of its token.
Durable == <<counter, tasks, token, balance>>

\* The calls a result shows through invoke_contract (to a target) and
\* through try_invoke_contract (to a resolver).
TargetCalls(l) == SelectSeq(l.calls, LAMBDA c : c.via = "invoke_contract")

ResolverCalls(l) == SelectSeq(l.calls, LAMBDA c : c.via = "try_invoke_contract")

\* A successful execute: it returned, having invoked the target.
Ran(l) == l.op = "execute" /\ l.result = "ok" /\ Len(TargetCalls(l)) > 0

\* This step is a call of op (last' is its result, the unprimed variables
\* the state it was made in).
Calls(op) == Idle /\ last'.op = op

\* This step is an execute on a stored task whose keeper passed
\* require_auth and the whitelist gate.
PermittedExecute ==
    /\ Calls("execute")
    /\ last'.id \in DOMAIN tasks
    /\ last'.auth
    /\ \/ Len(tasks[last'.id].whitelist) = 0
       \/ Contains(tasks[last'.id].whitelist, last'.who)

\* ------------------------------------------------------------------ claims

\* C1: a successful execute (target invoked, last_run updated) happens only
\* when now >= last_run + interval, so two successful executions of a task
\* are at least `interval` apart and a second execute at the timestamp of a
\* successful one invokes nothing.
C1_RunsOnlyAfterInterval ==
    [][Calls("execute") /\ Ran(last')
         => now >= tasks[last'.id].last_run + tasks[last'.id].interval]_vars

\* C2: the stored last_run of a task never decreases, and it changes only in
\* an execute call on that task whose target invocation returned.
C2_LastRunMonotone ==
    [][\A id \in DOMAIN tasks :
         /\ tasks'[id].last_run >= tasks[id].last_run
         /\ tasks'[id].last_run # tasks[id].last_run
              => Calls("execute") /\ Ran(last') /\ last'.id = id]_vars

\* C3: if the target invoked by execute faults, execute fails and storage
\* and ledger are as before the call; last_run is written only by an
\* execute whose last cross-contract call is a target call that returned.
C3_TargetFaultAborts ==
    [][Calls("execute") =>
         /\ (\E i \in 1..Len(last'.calls) :
                 /\ last'.calls[i].via = "invoke_contract"
                 /\ last'.calls[i].out = "fault")
              => last'.result # "ok" /\ UNCHANGED Durable
         /\ tasks' # tasks
              => /\ Len(last'.calls) > 0
                 /\ last'.calls[Len(last'.calls)].via = "invoke_contract"
                 /\ last'.calls[Len(last'.calls)].out = "ok"]_vars

C3_Witness ==
    /\ last.op = "execute"
    /\ last.result = "TargetFault"
    /\ Len(TargetCalls(last)) = 1
    /\ tasks[last.id].last_run < now

\* C4: for a task with a resolver, a permitted keeper and an elapsed
\* interval, execute asks the resolver once; if the resolver answers false,
\* answers with the wrong shape or traps, execute returns without error,
\* invokes no target and leaves storage unchanged.
C4_ResolverDeclines ==
    [][/\ PermittedExecute
       /\ tasks[last'.id].resolver # <<>>
       /\ now >= tasks[last'.id].last_run + tasks[last'.id].interval
       => /\ Len(ResolverCalls(last')) = 1
          /\ last'.calls[1].via = "try_invoke_contract"
          /\ last'.calls[1].to = tasks[last'.id].resolver[1]
          /\ last'.calls[1].out # "true"
               => /\ last'.result = "ok"
                  /\ Len(TargetCalls(last')) = 0
                  /\ UNCHANGED Durable]_vars

C4_Witness ==
    /\ last.op = "execute"
    /\ last.result = "ok"
    /\ Len(last.calls) = 1
    /\ last.calls[1].via = "try_invoke_contract"
    /\ last.calls[1].out = "fault"
    /\ now >= tasks[last.id].last_run + tasks[last.id].interval

\* C5: for a permitted keeper and an elapsed interval, with no resolver or a
\* resolver answering a clean true, and a target that returns, execute
\* invokes target.function(args) exactly once and stores last_run = now,
\* changing nothing else.
C5_RunsAndRecords ==
    [][/\ PermittedExecute
       /\ now >= tasks[last'.id].last_run + tasks[last'.id].interval
       /\ \/ tasks[last'.id].resolver = <<>>
          \/ \E i \in 1..Len(last'.calls) :
                 /\ last'.calls[i].via = "try_invoke_contract"
                 /\ last'.calls[i].out = "true"
       /\ \A i \in 1..Len(last'.calls) : last'.calls[i].out # "fault"
       => /\ last'.result = "ok"
          /\ TargetCalls(last') =
               << [via |-> "invoke_contract", to |-> tasks[last'.id].target,
                   fn |-> tasks[last'.id].function,
                   args |-> tasks[last'.id].args, out |-> "ok"] >>
          /\ tasks' = [tasks EXCEPT ![last'.id].last_run = now]
          /\ UNCHANGED <<counter, token, balance>>]_vars

C5_Witness ==
    /\ Ran(last)
    /\ Len(ResolverCalls(last)) = 1
    /\ tasks[last.id].last_run = now
    /\ tasks[last.id].interval = 2
    /\ now = 2

\* C6: an execute by a permitted keeper made while now < last_run + interval
\* returns without error, invokes neither resolver nor target, publishes
\* nothing and leaves storage unchanged.
C6_TooEarlyIsNoOp ==
    [][/\ PermittedExecute
       /\ now < tasks[last'.id].last_run + tasks[last'.id].interval
       => /\ last'.result = "ok"
          /\ last'.calls = <<>>
          /\ last'.events = <<>>
          /\ UNCHANGED Durable]_vars

\* C7: on a stored task with a non-empty whitelist, an execute whose keeper
\* is not in the whitelist always fails, with Unauthorized once the keeper
\* passed require_auth, invokes neither resolver nor target and leaves
\* storage unchanged, whatever the interval and the resolver; a keeper in
\* the whitelist, and any keeper when the whitelist is empty, is not refused.
C7_WhitelistGate ==
    [][Calls("execute") /\ last'.id \in DOMAIN tasks
       => IF /\ Len(tasks[last'.id].whitelist) > 0
             /\ ~Contains(tasks[last'.id].whitelist, last'.who)
          THEN /\ last'.result = IF last'.auth THEN "Unauthorized" ELSE "AuthDenied"
               /\ last'.calls = <<>>
               /\ UNCHANGED Durable
          ELSE last'.result # "Unauthorized"]_vars

C7_Witness ==
    /\ last.op = "execute"
    /\ last.result = "Unauthorized"
    /\ last.who = "bob"
    /\ tasks[last.id].whitelist = <<"alice">>
    /\ tasks[last.id].resolver # <<>>
    /\ now >= tasks[last.id].last_run + tasks[last.id].interval

\* C8: the k-th successful register returns k, and the Counter is the number
\* of successful registrations.
C8_SequentialIds ==
    /\ Len(returned) = counter
    /\ \A k \in 1..Len(returned) : returned[k] = k

C8_Witness ==
    /\ last.op = "register"
    /\ last.result = "ok"
    /\ last.ret_id = 2
    /\ returned = <<1, 2>>

\* C9: a register whose interval is 0 always fails, with InvalidInterval
\* once the creator passed require_auth, publishes nothing and leaves the
\* Counter and the records unchanged; every stored record has interval > 0.
C9_ZeroIntervalRejected ==
    [][/\ \A id \in DOMAIN tasks' : tasks'[id].interval > 0
       /\ Calls("register") /\ last'.arg[1].interval = 0
            => /\ last'.result = IF last'.auth THEN "InvalidInterval" ELSE "AuthDenied"
               /\ last'.events = <<>>
               /\ last'.ret_id = 0
               /\ UNCHANGED Durable]_vars

C9_Witness ==
    /\ last.op = "register"
    /\ last.result = "InvalidInterval"
    /\ last.arg[1].interval = 0
    /\ counter = 1

\* C10: whatever config register was given, get_task reports last_run = 0
\* for the task it stored.
C10_LastRunStartsAtZero ==
    last.op = "register" /\ last.result = "ok"
        => get_task(Store, last.ret_id).ret_task[1].last_run = 0

\* --------------------------------------------------------- the gas ledger

\* The amount a deposit_gas or withdraw_gas result was called with.
Amount(l) == l.arg[1]

\* The token refuses the transfer of amount from the account from.
Refused(from, amount) == amount < 0 \/ balance[from] < amount

\* C11: a successful deposit_gas(task_id, from, amount) moves amount from
\* `from` to the engine's account and increases the task's gas_balance by
\* exactly amount; if the token refuses the transfer, deposit_gas fails, and
\* a failed deposit_gas leaves gas_balance, storage and ledger unchanged.
C11_DepositCredits ==
    [][Calls("deposit_gas") /\ last'.id \in DOMAIN tasks
       => /\ last'.result = "ok"
               => /\ balance' = [balance EXCEPT ![last'.who] = @ - Amount(last'),
                                                ![Engine] = @ + Amount(last')]
                  /\ tasks' = [tasks EXCEPT
                                 ![last'.id].gas_balance = @ + Amount(last')]
                  /\ UNCHANGED <<counter, token>>
          /\ Refused(last'.who, Amount(last')) => last'.result # "ok"
          /\ last'.result # "ok" => UNCHANGED Durable]_vars

\* C12: on a stored task, a withdraw_gas whose amount exceeds gas_balance
\* always fails, with InsufficientBalance once the creator passed
\* require_auth, publishes nothing and leaves gas_balance, storage and ledger
\* unchanged, whether or not the token has been initialized.
C12_OverdrawRefused ==
    [][/\ Calls("withdraw_gas")
       /\ last'.id \in DOMAIN tasks
       /\ Amount(last') > tasks[last'.id].gas_balance
       => /\ last'.result = IF last'.auth THEN "InsufficientBalance"
                                          ELSE "AuthDenied"
          /\ last'.events = <<>>
          /\ UNCHANGED Durable]_vars

C12_Witness ==
    /\ last.op = "withdraw_gas"
    /\ last.result = "InsufficientBalance"
    /\ token = <<>>
    /\ Amount(last) = 2
    /\ tasks[last.id].gas_balance = 1

\* C13: a withdraw_gas succeeds only if the task's recorded creator has
\* authorized it and amount <= gas_balance; it moves exactly amount from the
\* engine's account to that creator and to no one else, and decreases the
\* task's gas_balance by exactly amount; after every successful deposit of d
\* on a task with balance b, a successful withdrawal of w leaves
\* gas_balance = b + d - w.
C13_WithdrawPaysCreator ==
    [][/\ Calls("withdraw_gas") /\ last'.result = "ok"
            => /\ last'.id \in DOMAIN tasks
               /\ last'.auth
               /\ last'.who = tasks[last'.id].creator
               /\ Amount(last') <= tasks[last'.id].gas_balance
               /\ balance' = [balance EXCEPT
                                ![Engine] = @ - Amount(last'),
                                ![tasks[last'.id].creator] = @ + Amount(last')]
               /\ tasks' = [tasks EXCEPT
                              ![last'.id].gas_balance = @ - Amount(last')]
               /\ UNCHANGED <<counter, token>>
       /\ Calls("deposit_gas") /\ last'.result = "ok"
            => \A w \in Amounts :
                 LET wd == withdraw_gas(Store', last'.id, w, TRUE, FALSE,
                                        overflow_checks)
                 IN  wd.result = "ok"
                       => wd.store.tasks[last'.id].gas_balance
                            = tasks[last'.id].gas_balance + Amount(last') - w]_vars

C13_Witness ==
    /\ last.op = "withdraw_gas"
    /\ last.result = "ok"
    /\ last.who = "bob"
    /\ Amount(last) = 2
    /\ tasks[last.id].gas_balance = 0
    /\ balance = [alice |-> 0, bob |-> 2, engine |-> 0]

\* C14: the gas_balance of a stored task changes only in a successful
\* deposit_gas or withdraw_gas on that task id: no execute (advanced, no-op
\* or failed), register, init, get_token or call on another task id
\* changes it.
C14_GasOnlyByLedgerCalls ==
    [][\A id \in DOMAIN tasks :
         /\ id \in DOMAIN tasks'
         /\ tasks'[id].gas_balance # tasks[id].gas_balance
              => /\ Calls("deposit_gas") \/ Calls("withdraw_gas")
                 /\ last'.result = "ok"
                 /\ last'.id = id]_vars

C14_Witness ==
    /\ Ran(last)
    /\ last.id = 1
    /\ counter = 2
    /\ tasks[1].gas_balance = 1
    /\ tasks[2].gas_balance = 1
    /\ balance[Engine] = 1

\* C15: an init made while no token is set succeeds and stores its
\* address; an init made once a token is set fails and changes nothing; no
\* call ever changes or clears a token that is set; get_token returns the
\* stored address.
C15_InitOnce ==
    [][/\ Calls("init")
            => IF token = <<>>
               THEN /\ last'.result = "ok"
                    /\ token' = last'.arg
                    /\ UNCHANGED <<counter, tasks, balance>>
               ELSE /\ last'.result # "ok"
                    /\ UNCHANGED Durable
       /\ token # <<>> => token' = token
       /\ Calls("get_token") /\ token # <<>>
            => /\ last'.result = "ok"
               /\ last'.ret_task = token
               /\ UNCHANGED Durable]_vars

C15_Witness ==
    /\ last.op = "init"
    /\ last.result = "AlreadyInitialized"
    /\ last.arg = <<"tokenB">>
    /\ token = <<"tokenA">>
    /\ balance[Engine] > 0

\* C16: while no token is set, get_token fails, and deposit_gas and
\* withdraw_gas on a stored task fail; these calls publish nothing, move no
\* token and leave every gas_balance and the rest of storage unchanged.
C16_UninitializedFails ==
    [][/\ token = <<>>
       /\ \/ Calls("get_token")
          \/ /\ Calls("deposit_gas") \/ Calls("withdraw_gas")
             /\ last'.id \in DOMAIN tasks
       => /\ last'.result # "ok"
          /\ last'.events = <<>>
          /\ UNCHANGED Durable]_vars

C16_Witness ==
    /\ last.op = "withdraw_gas"
    /\ last.result = "NotInitialized"
    /\ token = <<>>
    /\ Amount(last) = 1
    /\ tasks[last.id].gas_balance = I128Max

\* ------------------------------------------------- identity and isolation

\* The fields of a record that identify the task (all but last_run and
\* gas_balance).
Identity(config) ==
    [creator |-> config.creator, target |-> config.target,
     function |-> config.function, args |-> config.args,
     resolver |-> config.resolver, interval |-> config.interval,
     whitelist |-> config.whitelist]

\* C17: a register never returns an id that is stored or was returned
\* before, and it stores the config it was given under the id it returns;
\* a stored record is never removed, and its creator, target, function,
\* args, resolver, interval and whitelist never change.
C17_IdentityIsStable ==
    [][/\ \A id \in DOMAIN tasks :
            /\ id \in DOMAIN tasks'
            /\ Identity(tasks'[id]) = Identity(tasks[id])
       /\ Calls("register") /\ last'.result = "ok"
            => /\ last'.ret_id \notin DOMAIN tasks
               /\ \A k \in 1..Len(returned) : returned[k] # last'.ret_id
               /\ DOMAIN tasks' = DOMAIN tasks \union {last'.ret_id}
               /\ Identity(tasks'[last'.ret_id]) = Identity(last'.arg[1])]_vars

C17_Witness ==
    /\ Ran(last)
    /\ last.id = 1
    /\ returned = <<1, 2>>
    /\ tasks[1].creator = "bob"
    /\ tasks[1].args = <<5, 3>>
    /\ tasks[2].creator = "alice"

\* The calls that ask a principal's authorization, and those that load a
\* task record.
AsksAuth == {"register", "execute", "deposit_gas", "withdraw_gas"}

LoadsTask == {"execute", "deposit_gas", "withdraw_gas"}

\* C18: a call that fails publishes nothing and leaves the Counter, every
\* record, the token and the token ledger as they were; register, execute,
\* deposit_gas and withdraw_gas fail when the principal they ask (the
\* config's creator, the keeper, from, the record's creator) has not
\* authorized the call; execute, deposit_gas and withdraw_gas fail on an id
\* under which no record is stored.
C18_FailureChangesNothing ==
    [][Idle /\ last'.op # "none"
       => /\ last'.result # "ok"
               => /\ UNCHANGED Durable
                  /\ UNCHANGED returned
                  /\ last'.events = <<>>
          /\ last'.op \in AsksAuth /\ ~last'.auth => last'.result # "ok"
          /\ last'.op \in LoadsTask /\ last'.id \notin DOMAIN tasks
               => last'.result # "ok"]_vars

C18_Witness ==
    /\ last.op = "deposit_gas"
    /\ last.result = "Overflow"
    /\ balance[last.who] >= Amount(last)
    /\ tasks[last.id].gas_balance = I128Max

\* C19: get_task asks no authorization, always returns and changes
\* nothing; it returns the stored record for the ids 1..Counter, which are
\* the ids register returned, and absent for every other id; a record is
\* stored exactly under the ids 1..Counter.
C19_GetTaskReads ==
    [][/\ DOMAIN tasks = 1..counter
       /\ \A k \in 1..Len(returned) : returned[k] \in DOMAIN tasks
       /\ Calls("get_task")
            => /\ last'.result = "ok"
               /\ last'.auth /\ last'.who = ""
               /\ last'.events = <<>> /\ last'.calls = <<>>
               /\ UNCHANGED Durable
               /\ last'.ret_task = IF last'.id \in 1..counter
                                    THEN <<tasks[last'.id]>> ELSE <<>>]_vars

C19_Witness ==
    /\ last.op = "get_task"
    /\ last.id = 2
    /\ counter = 2
    /\ last.ret_task = <<tasks[2]>>
    /\ tasks[1].last_run > 0

\* C20: an execute call, whether it advances, returns early or fails,
\* publishes nothing and leaves the Counter, the token, every other record
\* and every field but last_run of the record it addresses unchanged.
C20_ExecuteWritesLastRunOnly ==
    [][Calls("execute")
       => /\ UNCHANGED <<counter, token>>
          /\ last'.events = <<>>
          /\ DOMAIN tasks' = DOMAIN tasks
          /\ \A id \in DOMAIN tasks :
               IF id = last'.id
               THEN tasks'[id] = [tasks[id] EXCEPT !.last_run = tasks'[id].last_run]
               ELSE tasks'[id] = tasks[id]]_vars

C20_Witness ==
    /\ Ran(last)
    /\ counter = 2
    /\ tasks[last.id].last_run = now
    /\ tasks[last.id].gas_balance = 1
    /\ tasks[last.id].args = <<5, 3>>
    /\ now > 1

\* ------------------------------------------------------- notifications

\* What a call that returned must have published, given the state it was
\* made in.
Expected(l) ==
    IF l.op = "register"
    THEN << <<"TaskRegistered", l.ret_id, l.arg[1].creator>> >>
    ELSE IF l.op = "deposit_gas"
    THEN << <<"GasDeposited", l.id, l.who, Amount(l)>> >>
    ELSE IF l.op = "withdraw_gas"
    THEN << <<"GasWithdrawn", l.id, tasks[l.id].creator, Amount(l)>> >>
    ELSE <<>>

\* C21: a register, deposit_gas or withdraw_gas that returns publishes
\* exactly one notification: TaskRegistered(id returned, creator),
\* GasDeposited(task_id, from, amount), GasWithdrawn(task_id, creator,
\* amount); a call that fails, and every get_task, init, get_token and
\* execute, publishes none.
C21_OneNotificationPerWrite ==
    [][Idle /\ last'.op # "none"
       => last'.events = IF last'.result = "ok" THEN Expected(last') ELSE <<>>]_vars

C21_Witness ==
    /\ last.op = "register"
    /\ last.result = "ok"
    /\ last.events = << <<"TaskRegistered", 2, "bob">> >>
    /\ tasks[1].creator = "alice"
    /\ tasks[1].gas_balance = 1
    /\ balance[Engine] = 1

\* --------------------------------------------------------------- backing

\* The sum of the gas_balance of the tasks 1..n.
RECURSIVE GasOwed(_)
GasOwed(n) == IF n = 0 THEN 0 ELSE tasks[n].gas_balance + GasOwed(n - 1)

\* C22: the engine's token holdings are at least the sum of all tasks'
\* gas_balance, and a withdraw_gas pays out of a task no more than what the
\* engine holds beyond the other tasks' balances, so no creator is paid with
\* tokens deposited for another task.
C22_GasIsBacked ==
    [][/\ balance[Engine] >= GasOwed(counter)
       /\ Calls("withdraw_gas") /\ last'.result = "ok"
            => Amount(last') <= balance[Engine]
                                 - (GasOwed(counter) - tasks[last'.id].gas_balance)]_vars

\* --------------------------------------------------------------- liveness

\* The resolver of the config never approves.
Stubborn(config) == config.resolver = <<"stubborn">>

\* C23: while the ledger keeps closing and the keepers keep calling, a
\* stored task whose resolver is absent or approves whenever asked is run
\* again whenever a full interval of the clock's range lies ahead; a task
\* whose resolver never approves never has its last_run changed.
C23_KeptRunning ==
    /\ \A id \in GasTaskIds :
          (/\ id \in DOMAIN tasks
           /\ ~Stubborn(tasks[id])
           /\ now + tasks[id].interval <= U64Max)
             ~> (Ran(last) /\ last.id = id)
    /\ [][\A id \in DOMAIN tasks :
            Stubborn(tasks[id]) => tasks'[id].last_run = tasks[id].last_run]_vars

\* ------------------------------------------------------ the gate's range

\* C24: for every record register accepts, last_run + interval does not
\* exceed the largest u64 value, so no execute faults in the interval gate
\* and none invokes the target before the true last_run + interval.
C24_GateSumInRange ==
    [][/\ Calls("register") /\ last'.result = "ok"
            => last'.arg[1].last_run + last'.arg[1].interval <= U64Max
       /\ Calls("execute")
            => /\ last'.result # "Overflow"
               /\ Len(TargetCalls(last')) > 0
                    => now >= tasks[last'.id].last_run + tasks[last'.id].interval]_vars

====
